---- MODULE Spec2Model ----
(***************************************************************************)
(* Speech-audio delivery of the AI-Dictionary application:                 *)
(* src/services/geminiService.ts (ttsCache, fetchAndDecodeTTS,             *)
(* getTTSBuffer, playBuffer, playTTS, prefetchTTS, resumeAudioContext)     *)
(* and the ResultCard handler that drives it (handleTTS).                  *)
(*                                                                         *)
(* JavaScript runs the code on one thread: every action below is one       *)
(* synchronous segment of the code (from a call or a resumed await to the  *)
(* next await).  Continuations of settled promises are microtasks and run  *)
(* before the next platform event (network response, resume completion,    *)
(* end of playback).                                                       *)
(***************************************************************************)
EXTENDS Naturals, Integers, Sequences, FiniteSets, TLC

\* ---------------------------------------------------------------- bounds
\* number of playTTS / prefetchTTS calls in a behaviour of Spec
MaxCalls == 2

\* number of calls in a behaviour of SpecRace (one key, three callers)
MaxRaceCalls == 3

\* number of calls in a behaviour of SpecDevice (suspended audio device)
MaxDeviceCalls == 2

\* number of calls in a behaviour of SpecWarm (handlers that warm the device)
MaxWarmCalls == 2

\* number of distinct terms the user can save in a behaviour of SpecApp
MaxTerms == 3

\* number of bytes in the longest payload of SpecDecode
MaxBytes == 4

\* ---------------------------------------------------------------- inputs
\* a text is a sequence of characters
Texts == { <<>>, <<" ">>, <<"h", "i">> }

Langs == { "French", "Korean" }

\* the (text, targetLang) pairs the callers pass
Inputs == { <<t, "French">> : t \in Texts } \cup { << <<"h", "i">>, "Korean" >> }

\* the callers of SpecRace all pass the same pair
RaceInputs == { << <<"h", "i">>, "French" >> }

\* ids handed to handleTTS by the ResultCard buttons ('main', `ex-${idx}`)
UiIds == { "main", "ex-0" }

RaceUiIds == { "main" }

\* the callers of SpecDevice
DeviceInputs == { << <<"h", "i">>, "French" >>, << <<" ">>, "French" >> }

\* AudioContext.state of a newly constructed context: "running" when the
\* platform allows audio at once, "suspended" when its autoplay policy holds
\* the context back until it is resumed
CreatedStates == { "suspended", "running" }

\* what one synthesis request can end with: a decodable payload, a rejected
\* request, a response without inlineData, a payload atob cannot decode
Outcomes == { "ok", "transport", "empty", "undecodable" }

\* byte values of the payloads of SpecDecode: 0x00, 0x01, 0x7F, 0x80, 0xFF
ByteValues == { 0, 1, 127, 128, 255 }

\* the byte arrays decodeBase64 can hand to the PCM conversion
Payloads == UNION { [1 .. n -> ByteValues] : n \in 0 .. MaxBytes }

VARIABLES
    calls,          \* the playTTS / prefetchTTS calls made so far
    nCalls,         \* number of calls made
    inv,            \* the fetchAndDecodeTTS invocations (one promise each)
    nInv,           \* number of invocations made
    ttsCache,       \* cacheKey -> invocation whose promise is stored, 0 = none
    netRequests,    \* number of generateContent requests issued
    audioCtx,       \* number of AudioContext objects constructed (0 = null)
    ctxState,       \* state of the AudioContext
    isPlayingAudio, \* ResultCard state set by handleTTS
    lastError,      \* the error most recently logged by getTTSBuffer's catch
    byteArray,      \* the bytes decodeBase64 returned (SpecDecode)
    audioBuffer,    \* what the PCM conversion made of them (SpecDecode)
    view,           \* App state: the ViewState shown (SpecApp)
    notebook,       \* App state: the terms of the saved entries (SpecApp)
    currentFlashcardIndex   \* App state (SpecApp)

vars == <<calls, nCalls, inv, nInv, ttsCache, netRequests, audioCtx,
          ctxState, isPlayingAudio, lastError, byteArray, audioBuffer,
          view, notebook, currentFlashcardIndex>>

\* the state of the App component that the flashcard view reads
appVars == <<view, notebook, currentFlashcardIndex>>

\* the state of the TTS module and of its callers
ttsVars == <<calls, nCalls, inv, nInv, ttsCache, netRequests, audioCtx,
             ctxState, isPlayingAudio, lastError>>

\* the state of one PCM conversion
pcmVars == <<byteArray, audioBuffer>>

CallIds == DOMAIN calls
InvIds == DOMAIN inv

\* ------------------------------------------------------- pure functions
IsSpace(ch) == ch = " "

RECURSIVE TrimStart(_)
TrimStart(s) ==
    IF Len(s) > 0 /\ IsSpace(Head(s)) THEN TrimStart(Tail(s)) ELSE s

RECURSIVE TrimEnd(_)
TrimEnd(s) ==
    IF Len(s) > 0 /\ IsSpace(s[Len(s)])
    THEN TrimEnd(SubSeq(s, 1, Len(s) - 1)) ELSE s

\* a guard that tests `!text` only: nothing is trimmed
NoTrim(s) == s

\* String.prototype.trim
Trim(s) == TrimEnd(TrimStart(s))

\* a guard that lets the empty string through
FalsyNever(text) == FALSE

\* !text
Falsy(text) == Len(text) = 0

\* `${lang}:${text}`
CacheKey(text, lang) == <<lang, ":">> \o text

Keys == { CacheKey(t, l) : t \in Texts, l \in Langs }

\* ------------------------------------------------------- PCM conversion
\* no conversion has run
NoBuffer == [state |-> "none", length |-> 0, channelData |-> <<>>]

\* `if (byteArray.length % 2 !== 0) byteArray = byteArray.slice(0, length - 1)`
EvenPrefix(b) ==
    IF Len(b) % 2 # 0 THEN SubSeq(b, 1, Len(b) - 1) ELSE b

\* a Uint16Array view of the bytes
ToUint16(lo, hi) == lo + 256 * hi

\* element of the Int16Array view of two bytes: 16-bit two's complement, the
\* first byte is the low one (the platform's byte order, little-endian)
ToInt16(lo, hi) ==
    LET u == lo + 256 * hi IN
    IF u >= 32768 THEN u - 65536 ELSE u

\* new Int16Array(byteArray.buffer, byteArray.byteOffset, byteArray.length / 2)
DataInt16(b) == [i \in 1 .. (Len(b) \div 2) |-> ToInt16(b[2 * i - 1], b[2 * i])]

\* a buffer with one frame per byte
FramesPerByte(b) == Len(b)

\* the frame count passed to ctx.createBuffer(1, byteArray.length / 2, 24000)
Frames(b) == Len(b) \div 2

\* ctx.createBuffer(1, frames, 24000): a silent buffer; the Web Audio API
\* throws NotSupportedError for a frame count of zero
CreateBuffer(frames) ==
    IF frames < 1
    THEN [state |-> "NotSupportedError", length |-> 0, channelData |-> <<>>]
    ELSE [state |-> "ok", length |-> frames,
          channelData |-> [i \in 1 .. frames |-> 0]]

\* the PCM conversion of fetchAndDecodeTTS.  A sample is kept as the integer
\* s of the value s / 32768.0, which a Float32Array element holds exactly
DecodePCM(payload) ==
    LET b == EvenPrefix(payload)
        buf == CreateBuffer(Frames(b))
        dataInt16 == DataInt16(b) IN
    IF buf.state # "ok"
    THEN buf
    ELSE [buf EXCEPT !.channelData =
            [i \in 1 .. buf.length |->
                IF i <= Len(dataInt16) THEN dataInt16[i] ELSE @[i]]]

NoCall == [kind |-> "none", text |-> <<>>, lang |-> "", pc |-> "new",
           attempts |-> 0, entry |-> 0, buffer |-> 0, plays |-> 0,
           threw |-> FALSE, overlap |-> {}]

\* `deletes` counts the ttsCache.delete calls made because this invocation
\* gave no buffer
NoInv == [key |-> <<>>, outcome |-> "none", result |-> "none", deletes |-> 0]

\* a settled promise is one whose result is known
Settled(n) == inv[n].result \in { "buffer", "null", "rejected" }

\* fetchAndDecodeTTS up to its first await: the promise it returns
FetchAndDecodeTTS(text, lang) ==
    IF Falsy(text) \/ Falsy(Trim(text))
    THEN [key |-> CacheKey(text, lang), outcome |-> "notext",
          result |-> "null", deletes |-> 0]
    ELSE [key |-> CacheKey(text, lang), outcome |-> "pending",
          result |-> "pending", deletes |-> 0]

IssuesRequest(text) == ~ (Falsy(text) \/ Falsy(Trim(text)))

\* fetchAndDecodeTTS without `if (!base64Audio) throw`: a response without
\* audio gives an empty buffer
CatchResultEmptyOk(outcome) ==
    IF outcome \in { "ok", "empty" } THEN "buffer" ELSE "null"

\* a catch handler that logs and rethrows
CatchResultRethrow(outcome) == IF outcome = "ok" THEN "buffer" ELSE "rejected"

\* the .catch handler of getTTSBuffer: what the stored promise resolves to
CatchResult(outcome) == IF outcome = "ok" THEN "buffer" ELSE "null"

\* the .catch handler of getTTSBuffer: one ttsCache.delete per rejection
CatchDeletes(outcome) == IF outcome = "ok" THEN 0 ELSE 1

\* a catch handler that leaves the failed promise in the cache
CatchNoEvict(cache, key, outcome) == cache

\* the .catch handler of getTTSBuffer: ttsCache.delete(cacheKey) on failure
CatchEvict(cache, key, outcome) ==
    IF outcome = "ok" THEN cache ELSE [cache EXCEPT ![key] = 0]

\* getAudioContext without `if (!audioCtx)`: a new context at every call
GetAudioContextAnew(created) ==
    [audioCtx |-> audioCtx + 1, ctxState |-> created]

\* getAudioContext: the singleton and its state after the call; `created`
\* is the state the platform gives a newly constructed context
GetAudioContext(created) ==
    IF audioCtx = 0
    THEN [audioCtx |-> audioCtx + 1, ctxState |-> created]
    ELSE [audioCtx |-> audioCtx, ctxState |-> ctxState]

\* getTTSBuffer without `ttsCache.set(cacheKey, promise)`
GetTTSBufferNoSet(cache, text, lang, created) ==
    LET cacheKey == CacheKey(text, lang)
        ctx == IF IssuesRequest(text) THEN GetAudioContext(created)
               ELSE [audioCtx |-> audioCtx, ctxState |-> ctxState] IN
    IF cache[cacheKey] # 0
    THEN [entry |-> cache[cacheKey], cache |-> cache, inv |-> inv,
          nInv |-> nInv, net |-> netRequests,
          audioCtx |-> audioCtx, ctxState |-> ctxState]
    ELSE [entry |-> nInv + 1,
          cache |-> cache,
          inv |-> [inv EXCEPT ![nInv + 1] = FetchAndDecodeTTS(text, lang)],
          nInv |-> nInv + 1,
          net |-> IF IssuesRequest(text) THEN netRequests + 1 ELSE netRequests,
          audioCtx |-> ctx.audioCtx, ctxState |-> ctx.ctxState]

\* getTTSBuffer: the entry, cache, invocations and audio device after the
\* call on `cache` (fetchAndDecodeTTS calls getAudioContext before its request)
GetTTSBuffer(cache, text, lang, created) ==
    LET cacheKey == CacheKey(text, lang)
        ctx == IF IssuesRequest(text) THEN GetAudioContext(created)
               ELSE [audioCtx |-> audioCtx, ctxState |-> ctxState] IN
    IF cache[cacheKey] # 0
    THEN [entry |-> cache[cacheKey], cache |-> cache, inv |-> inv,
          nInv |-> nInv, net |-> netRequests,
          audioCtx |-> audioCtx, ctxState |-> ctxState]
    ELSE [entry |-> nInv + 1,
          cache |-> [cache EXCEPT ![cacheKey] = nInv + 1],
          inv |-> [inv EXCEPT ![nInv + 1] = FetchAndDecodeTTS(text, lang)],
          nInv |-> nInv + 1,
          net |-> IF IssuesRequest(text) THEN netRequests + 1 ELSE netRequests,
          audioCtx |-> ctx.audioCtx, ctxState |-> ctx.ctxState]

\* playTTS evicting and refetching whatever the first outcome was
AlwaysRetry(buffer) == TRUE

\* playTTS without the retry branch
NeverRetry(buffer) == FALSE

\* `if (!buffer)` of playTTS: the first outcome calls for the retry
NeedsRetry(buffer) == buffer = 0

\* a call that has not returned to its caller, or a prefetch whose request
\* is still in flight
Outstanding(c) ==
    \/ calls[c].kind = "play" /\ calls[c].pc # "done"
    \/ calls[c].kind = "prefetch" /\ calls[c].entry # 0
          /\ inv[calls[c].entry].result = "pending"

\* the calls a new call overlaps with
OutstandingCalls == { c \in CallIds : Outstanding(c) }

\* a continuation that is ready to run as a microtask
Runnable(c) ==
    \/ calls[c].pc \in { "resumed", "finished" }
    \/ calls[c].pc \in { "await1", "await2" } /\ Settled(calls[c].entry)

\* platform events are delivered only when the microtask queue is empty
QueueEmpty == \A c \in CallIds : ~ Runnable(c)

\* ------------------------------------------------------------------ Init
\* every call misses the cache at most twice (first attempt and retry)
InitTTS(maxCalls) ==
    /\ calls = [c \in 1 .. maxCalls |-> NoCall]
    /\ nCalls = 0
    /\ inv = [n \in 1 .. 2 * maxCalls |-> NoInv]
    /\ nInv = 0
    /\ ttsCache = [k \in Keys |-> 0]
    /\ netRequests = 0
    /\ audioCtx = 0
    /\ ctxState = "none"
    /\ isPlayingAudio = "null"
    /\ lastError = "none"

\* no payload is being converted
InitPCM ==
    /\ byteArray = <<>>
    /\ audioBuffer = NoBuffer

\* the App component as first rendered with an empty notebook
InitAppEmpty ==
    /\ view = "HOME"
    /\ notebook = <<>>
    /\ currentFlashcardIndex = 0

\* the specifications of the calls convert no payload and leave the App alone
InitFor(maxCalls) ==
    /\ InitTTS(maxCalls)
    /\ InitPCM
    /\ InitAppEmpty

\* --------------------------------------------------------------- actions
\* handleTTS(text, id) up to the first await inside playTTS:
\* setIsPlayingAudio(id); playTTS: if (!text) return; resumeAudioContext()
HandleTTS(text, lang, id, created) ==
    /\ QueueEmpty
    /\ nCalls + 1 \in CallIds
    /\ nCalls' = nCalls + 1
    /\ isPlayingAudio' = id
    /\ LET ctx == GetAudioContext(created)
           st == ctx.ctxState IN
       IF Falsy(text)
       THEN /\ calls' = [calls EXCEPT ![nCalls + 1] =
                   [NoCall EXCEPT !.kind = "play", !.text = text,
                                  !.lang = lang, !.pc = "finished",
                                  !.overlap = OutstandingCalls]]
            /\ UNCHANGED <<audioCtx, ctxState>>
       ELSE /\ calls' = [calls EXCEPT ![nCalls + 1] =
                   [NoCall EXCEPT !.kind = "play", !.text = text,
                                  !.lang = lang,
                                  !.overlap = OutstandingCalls,
                                  !.pc = IF st = "suspended"
                                         THEN "resuming" ELSE "resumed"]]
            /\ audioCtx' = ctx.audioCtx
            /\ ctxState' = st
    /\ UNCHANGED <<inv, nInv, ttsCache, netRequests, lastError>>
    /\ UNCHANGED pcmVars
    /\ UNCHANGED appVars

\* resumeAudioContext without the try / catch around `await ctx.resume()`
ResumeSettlesThrows(c, ok) ==
    /\ QueueEmpty
    /\ calls[c].pc = "resuming"
    /\ calls' = IF ok
                THEN [calls EXCEPT ![c].pc = "resumed"]
                ELSE [calls EXCEPT ![c].pc = "finished", ![c].threw = TRUE]
    /\ ctxState' = IF ok THEN "running" ELSE ctxState
    /\ UNCHANGED <<nCalls, inv, nInv, ttsCache, netRequests, audioCtx,
                   isPlayingAudio, lastError>>
    /\ UNCHANGED pcmVars
    /\ UNCHANGED appVars

\* ctx.resume() settles; a rejection is caught inside resumeAudioContext
ResumeSettles(c, ok) ==
    /\ QueueEmpty
    /\ calls[c].pc = "resuming"
    /\ calls' = [calls EXCEPT ![c].pc = IF calls[c].kind = "play"
                                        THEN "resumed" ELSE "done"]
    /\ ctxState' = IF ok THEN "running" ELSE ctxState
    /\ UNCHANGED <<nCalls, inv, nInv, ttsCache, netRequests, audioCtx,
                   isPlayingAudio, lastError>>
    /\ UNCHANGED pcmVars
    /\ UNCHANGED appVars

\* playTTS after `await resumeAudioContext()`: first getTTSBuffer
PlayGetBuffer(c) ==
    /\ calls[c].pc = "resumed"
    /\ LET r == GetTTSBuffer(ttsCache, calls[c].text, calls[c].lang,
                             ctxState) IN
       /\ calls' = [calls EXCEPT ![c].pc = "await1", ![c].entry = r.entry,
                                 ![c].attempts = 1]
       /\ ttsCache' = r.cache
       /\ inv' = r.inv
       /\ nInv' = r.nInv
       /\ netRequests' = r.net
    /\ UNCHANGED <<nCalls, audioCtx, ctxState, isPlayingAudio, lastError>>
    /\ UNCHANGED pcmVars
    /\ UNCHANGED appVars

\* playTTS resumed from the first `await getTTSBuffer`: the retry branch,
\* then `if (buffer) await playBuffer(ctx, buffer) else console.warn`
PlayAfterFirst(c) ==
    /\ calls[c].pc = "await1"
    /\ Settled(calls[c].entry)
    /\ LET res == inv[calls[c].entry].result
           buffer == IF res = "buffer" THEN calls[c].entry ELSE 0
           cacheKey == CacheKey(calls[c].text, calls[c].lang)
           r == GetTTSBuffer([ttsCache EXCEPT ![cacheKey] = 0],
                             calls[c].text, calls[c].lang, ctxState) IN
       IF res = "rejected"
       THEN /\ calls' = [calls EXCEPT ![c].pc = "finished",
                                      ![c].threw = TRUE]
            /\ UNCHANGED <<ttsCache, inv, nInv, netRequests>>
       ELSE IF NeedsRetry(buffer)
       THEN /\ calls' = [calls EXCEPT ![c].pc = "await2",
                                      ![c].entry = r.entry,
                                      ![c].attempts = 2]
            /\ ttsCache' = r.cache
            /\ inv' = [r.inv EXCEPT ![calls[c].entry].deletes = @ + 1]
            /\ nInv' = r.nInv
            /\ netRequests' = r.net
       ELSE /\ calls' = IF buffer # 0
                        THEN [calls EXCEPT ![c].pc = "playing",
                                           ![c].buffer = buffer,
                                           ![c].plays = @ + 1]
                        ELSE [calls EXCEPT ![c].pc = "finished"]
            /\ UNCHANGED <<ttsCache, inv, nInv, netRequests>>
    /\ UNCHANGED <<nCalls, audioCtx, ctxState, isPlayingAudio, lastError>>
    /\ UNCHANGED pcmVars
    /\ UNCHANGED appVars

\* the retry written as a loop: a failed retry evicts and tries again
PlayAfterRetryLoop(c) ==
    /\ calls[c].pc = "await2"
    /\ Settled(calls[c].entry)
    /\ LET res == inv[calls[c].entry].result
           buffer == IF res = "buffer" THEN calls[c].entry ELSE 0
           cacheKey == CacheKey(calls[c].text, calls[c].lang)
           r == GetTTSBuffer([ttsCache EXCEPT ![cacheKey] = 0],
                             calls[c].text, calls[c].lang, ctxState) IN
       IF buffer # 0
       THEN /\ calls' = [calls EXCEPT ![c].pc = "playing",
                                      ![c].buffer = buffer,
                                      ![c].plays = @ + 1]
            /\ UNCHANGED <<ttsCache, inv, nInv, netRequests>>
       ELSE /\ calls' = [calls EXCEPT ![c].entry = r.entry,
                                      ![c].attempts = @ + 1]
            /\ ttsCache' = r.cache
            /\ inv' = [r.inv EXCEPT ![calls[c].entry].deletes = @ + 1]
            /\ nInv' = r.nInv
            /\ netRequests' = r.net
    /\ UNCHANGED <<nCalls, audioCtx, ctxState, isPlayingAudio, lastError>>
    /\ UNCHANGED pcmVars
    /\ UNCHANGED appVars

\* playTTS resumed from the second `await getTTSBuffer`:
\* `if (buffer) await playBuffer(ctx, buffer) else console.warn`
PlayAfterRetry(c) ==
    /\ calls[c].pc = "await2"
    /\ Settled(calls[c].entry)
    /\ LET res == inv[calls[c].entry].result
           buffer == IF res = "buffer" THEN calls[c].entry ELSE 0 IN
       IF res = "rejected"
       THEN calls' = [calls EXCEPT ![c].pc = "finished", ![c].threw = TRUE]
       ELSE IF buffer # 0
       THEN calls' = [calls EXCEPT ![c].pc = "playing",
                                   ![c].buffer = buffer,
                                   ![c].plays = @ + 1]
       ELSE calls' = [calls EXCEPT ![c].pc = "finished"]
    /\ UNCHANGED <<nCalls, inv, nInv, ttsCache, netRequests, audioCtx,
                   ctxState, isPlayingAudio, lastError>>
    /\ UNCHANGED pcmVars
    /\ UNCHANGED appVars

\* playBuffer without `source.onended = () => resolve()`
PlaybackNeverEnds(c) == FALSE /\ UNCHANGED vars

\* source.onended: playBuffer's promise resolves and playTTS returns
PlaybackEnded(c) ==
    /\ QueueEmpty
    /\ calls[c].pc = "playing"
    /\ calls' = [calls EXCEPT ![c].pc = "finished"]
    /\ UNCHANGED <<nCalls, inv, nInv, ttsCache, netRequests, audioCtx,
                   ctxState, isPlayingAudio, lastError>>
    /\ UNCHANGED pcmVars
    /\ UNCHANGED appVars

\* handleTTS after `await playTTS`: catch logs, finally resets the state
HandleTTSFinally(c) ==
    /\ calls[c].pc = "finished"
    /\ calls' = [calls EXCEPT ![c].pc = "done"]
    /\ isPlayingAudio' = "null"
    /\ UNCHANGED <<nCalls, inv, nInv, ttsCache, netRequests, audioCtx,
                   ctxState, lastError>>
    /\ UNCHANGED pcmVars
    /\ UNCHANGED appVars

\* prefetchTTS(text, lang): returns at once; .catch(() => {}) on the promise
PrefetchTTS(text, lang, created) ==
    /\ QueueEmpty
    /\ nCalls + 1 \in CallIds
    /\ nCalls' = nCalls + 1
    /\ IF Falsy(text)
       THEN /\ calls' = [calls EXCEPT ![nCalls + 1] =
                   [NoCall EXCEPT !.kind = "prefetch", !.text = text,
                                  !.lang = lang, !.pc = "done",
                                  !.overlap = OutstandingCalls]]
            /\ UNCHANGED <<inv, nInv, ttsCache, netRequests, audioCtx,
                           ctxState>>
       ELSE LET r == GetTTSBuffer(ttsCache, text, lang, created) IN
            /\ calls' = [calls EXCEPT ![nCalls + 1] =
                   [NoCall EXCEPT !.kind = "prefetch", !.text = text,
                                  !.lang = lang, !.pc = "done",
                                  !.overlap = OutstandingCalls,
                                  !.entry = r.entry, !.attempts = 1]]
            /\ ttsCache' = r.cache
            /\ inv' = r.inv
            /\ nInv' = r.nInv
            /\ netRequests' = r.net
            /\ audioCtx' = r.audioCtx
            /\ ctxState' = r.ctxState
    /\ UNCHANGED <<isPlayingAudio, lastError>>
    /\ UNCHANGED pcmVars
    /\ UNCHANGED appVars

\* the synthesis request of invocation n settles; fetchAndDecodeTTS runs to
\* its end and the .catch handler of getTTSBuffer runs on a rejection
PipelineSettles(n, outcome) ==
    /\ QueueEmpty
    /\ n <= nInv
    /\ inv[n].outcome = "pending"
    /\ inv' = [inv EXCEPT ![n].outcome = IF outcome = "ok" THEN "ok" ELSE "failed",
                          ![n].result = CatchResult(outcome),
                          ![n].deletes = @ + CatchDeletes(outcome)]
    /\ ttsCache' = CatchEvict(ttsCache, inv[n].key, outcome)
    /\ lastError' = IF outcome = "ok" THEN lastError ELSE outcome
    /\ UNCHANGED <<calls, nCalls, nInv, netRequests, audioCtx, ctxState,
                   isPlayingAudio>>
    /\ UNCHANGED pcmVars
    /\ UNCHANGED appVars

\* the steps of the calls and of the pipeline
NextOn(inputs, ids, created) ==
    \/ \E in \in inputs, id \in ids, cr \in created :
          HandleTTS(in[1], in[2], id, cr)
    \/ \E c \in CallIds : PlayGetBuffer(c)
    \/ \E c \in CallIds : PlayAfterFirst(c)
    \/ \E c \in CallIds : PlayAfterRetry(c)
    \/ \E c \in CallIds : PlaybackEnded(c)
    \/ \E c \in CallIds : HandleTTSFinally(c)
    \/ \E in \in inputs, cr \in created : PrefetchTTS(in[1], in[2], cr)
    \/ \E n \in InvIds, o \in Outcomes : PipelineSettles(n, o)

\* Spec: the calls of the ResultCard on a platform that starts the audio
\* device running
Init == InitFor(MaxCalls)

Next == NextOn(Inputs, UiIds, { "running" })

Spec == Init /\ [][Next]_vars

\* SpecRace: three callers of one key
InitRace == InitFor(MaxRaceCalls)

NextRace == NextOn(RaceInputs, RaceUiIds, { "running" })

SpecRace == InitRace /\ [][NextRace]_vars

\* SpecDevice: a platform that may hand out a suspended audio device, which
\* playTTS resumes before it looks the buffer up
InitDevice == InitFor(MaxDeviceCalls)

NextDevice ==
    \/ NextOn(DeviceInputs, RaceUiIds, CreatedStates)
    \/ \E c \in CallIds, ok \in BOOLEAN : ResumeSettles(c, ok)

SpecDevice == InitDevice /\ [][NextDevice]_vars

\* resumeAudioContext() as handleSearch and handleTranslateDiary call it, to
\* warm the device up: not awaited, no playTTS behind it
ResumeAudioContext(created) ==
    /\ QueueEmpty
    /\ nCalls + 1 \in CallIds
    /\ nCalls' = nCalls + 1
    /\ LET ctx == GetAudioContext(created) IN
       /\ calls' = [calls EXCEPT ![nCalls + 1] =
              [NoCall EXCEPT !.kind = "resume",
                             !.pc = IF ctx.ctxState = "suspended"
                                    THEN "resuming" ELSE "done"]]
       /\ audioCtx' = ctx.audioCtx
       /\ ctxState' = ctx.ctxState
    /\ UNCHANGED <<inv, nInv, ttsCache, netRequests, isPlayingAudio,
                   lastError>>
    /\ UNCHANGED pcmVars
    /\ UNCHANGED appVars

\* SpecWarm: SpecDevice with the handlers that call resumeAudioContext alone
InitWarm == InitFor(MaxWarmCalls)

NextWarm ==
    \/ NextOn(RaceInputs, RaceUiIds, CreatedStates)
    \/ \E c \in CallIds, ok \in BOOLEAN : ResumeSettles(c, ok)
    \/ \E cr \in CreatedStates : ResumeAudioContext(cr)

SpecWarm == InitWarm /\ [][NextWarm]_vars

\* SpecDecode: the PCM conversion applied to every payload of at most
\* MaxBytes bytes
InitDecode ==
    /\ InitTTS(1)
    /\ byteArray \in Payloads
    /\ audioBuffer = NoBuffer
    /\ InitAppEmpty

\* lines 279-299 of fetchAndDecodeTTS, run on byteArray
Decode ==
    /\ audioBuffer.state = "none"
    /\ audioBuffer' = DecodePCM(byteArray)
    /\ UNCHANGED <<byteArray, ttsVars>>
    /\ UNCHANGED appVars

NextDecode == Decode

SpecDecode == InitDecode /\ [][NextDecode]_vars

\* ------------------------------------------------------------------ App
\* the terms of the entries the user can look up or write in the diary
Terms == 1 .. MaxTerms

\* ViewState
Views == { "HOME", "RESULTS", "NOTEBOOK", "FLASHCARDS", "DIARY" }

\* a notebook as saveEntry builds it: no term twice
NoDuplicates(nb) ==
    \A i, j \in 1 .. Len(nb) : nb[i] = nb[j] => i = j

\* the notebooks localStorage can hold when the App starts
SavedNotebooks ==
    { nb \in UNION { [1 .. n -> Terms] : n \in 0 .. MaxTerms } : NoDuplicates(nb) }

\* SpecApp: navigation, the flashcard buttons and saveEntry
InitApp ==
    /\ InitTTS(1)
    /\ InitPCM
    /\ view = "HOME"
    /\ notebook \in SavedNotebooks
    /\ currentFlashcardIndex = 0

\* setView(v) of the Home / Diary / Notebook buttons, handleSearch and the
\* notebook items
SetView(v) ==
    /\ v # "FLASHCARDS"
    /\ view' = v
    /\ UNCHANGED <<notebook, currentFlashcardIndex, ttsVars, pcmVars>>

\* the Learn button: setCurrentFlashcardIndex(0); setView(FLASHCARDS)
Learn ==
    /\ currentFlashcardIndex' = 0
    /\ view' = "FLASHCARDS"
    /\ UNCHANGED <<notebook, ttsVars, pcmVars>>

\* the flashcard view shows a card (the notebook is not empty)
RendersCard == view = "FLASHCARDS" /\ Len(notebook) # 0

\* the previous button, disabled at index 0
PreviousCard ==
    /\ RendersCard
    /\ ~ (currentFlashcardIndex = 0)
    /\ currentFlashcardIndex' = currentFlashcardIndex - 1
    /\ UNCHANGED <<view, notebook, ttsVars, pcmVars>>

\* a next button that is never disabled
NextCardAlways ==
    /\ RendersCard
    /\ currentFlashcardIndex' = currentFlashcardIndex + 1
    /\ UNCHANGED <<view, notebook, ttsVars, pcmVars>>

\* the next button, disabled at index notebook.length - 1
NextCard ==
    /\ RendersCard
    /\ ~ (currentFlashcardIndex = Len(notebook) - 1)
    /\ currentFlashcardIndex' = currentFlashcardIndex + 1
    /\ UNCHANGED <<view, notebook, ttsVars, pcmVars>>

\* saveEntry(entry), from the ResultCard of the results view or from
\* handleSaveDiary: the entry goes in front unless its term is there
SaveEntry(term) ==
    /\ view \in { "RESULTS", "DIARY" }
    /\ notebook' = IF \E i \in 1 .. Len(notebook) : notebook[i] = term
                   THEN notebook
                   ELSE <<term>> \o notebook
    /\ UNCHANGED <<view, currentFlashcardIndex, ttsVars, pcmVars>>

NextApp ==
    \/ \E v \in Views : SetView(v)
    \/ Learn
    \/ PreviousCard
    \/ NextCard
    \/ \E t \in Terms : SaveEntry(t)

SpecApp == InitApp /\ [][NextApp]_vars

TypeOK ==
    /\ nCalls \in 0 .. Cardinality(CallIds)
    /\ nInv \in 0 .. Cardinality(InvIds)
    /\ \A k \in Keys : ttsCache[k] \in 0 .. nInv
    /\ audioCtx \in 0 .. 1

\* ------------------------------------------------------------ properties
KeyOf(c) == CacheKey(calls[c].text, calls[c].lang)

\* the fetchAndDecodeTTS invocations made for a key
InvsOf(k) == { n \in InvIds : n <= nInv /\ inv[n].key = k }

\* the invocations of a key that have started and not settled
OutstandingInvs(k) == { n \in InvsOf(k) : inv[n].result = "pending" }

\* calls for the same key whose lifetimes overlap
Concurrent(c1, c2) ==
    /\ c1 # c2
    /\ calls[c1].kind # "none" /\ calls[c2].kind # "none"
    /\ ~ Falsy(calls[c1].text)
    /\ KeyOf(c1) = KeyOf(c2)
    /\ (c1 \in calls[c2].overlap \/ c2 \in calls[c1].overlap)

\* playTTS has decided what this call ends with
Decided(c) ==
    calls[c].kind = "play" /\ calls[c].pc \in { "playing", "finished", "done" }

\* no invocation of the key has failed or returned an absent buffer
NoFailureYet(k) == \A n \in InvsOf(k) : inv[n].result \in { "pending", "buffer" }

\* C1, as stated: concurrent calls with the same (text, language) cause at
\* most one fetchAndDecodeTTS invocation for the key, whatever the pipeline
\* outcomes are.
C1_AtMostOnceAnyOutcome ==
    \A c1, c2 \in CallIds :
        Concurrent(c1, c2) => Cardinality(InvsOf(KeyOf(c1))) <= 1

\* C1, amended: as long as no invocation for a key has failed or returned an
\* absent buffer, fetchAndDecodeTTS has been invoked at most once for that
\* key, however many calls were made for it and however they interleave.
C1_AtMostOnceWhileNoFailure ==
    \A k \in Keys : NoFailureYet(k) => Cardinality(InvsOf(k)) <= 1

\* two concurrent calls of one key were served by a single invocation
C1_Witness ==
    \E c1, c2 \in CallIds :
        /\ Concurrent(c1, c2)
        /\ calls[c1].entry # 0 /\ calls[c1].entry = calls[c2].entry
        /\ NoFailureYet(KeyOf(c1))
        /\ inv[calls[c1].entry].result = "buffer"
        /\ Cardinality(InvsOf(KeyOf(c1))) = 1

\* C2, as stated: concurrent playTTS calls of one key end with one shared
\* outcome: the same buffer for all of them, or no buffer for any of them.
C2_SharedOutcome ==
    \A c1, c2 \in CallIds :
        (Concurrent(c1, c2) /\ Decided(c1) /\ Decided(c2))
            => calls[c1].buffer = calls[c2].buffer

\* C2, amended: as long as no invocation for the key has failed or returned
\* an absent buffer, concurrent playTTS calls of that key end with the same
\* buffer (same identity), and none of them ends without a buffer.
C2_SharedBufferWhileNoFailure ==
    \A c1, c2 \in CallIds :
        (Concurrent(c1, c2) /\ Decided(c1) /\ Decided(c2)
            /\ NoFailureYet(KeyOf(c1)))
            => (calls[c1].buffer = calls[c2].buffer /\ calls[c1].buffer # 0)

\* two overlapping playTTS calls both play the one decoded buffer
C2_Witness ==
    \E c1, c2 \in CallIds :
        /\ Concurrent(c1, c2) /\ Decided(c1) /\ Decided(c2)
        /\ NoFailureYet(KeyOf(c1))
        /\ calls[c1].plays = 1 /\ calls[c2].plays = 1
        /\ calls[c1].buffer = calls[c2].buffer /\ calls[c1].buffer # 0

\* C3: for every cache key at most one fetchAndDecodeTTS invocation is
\* outstanding (started and not settled) in every reachable state.
C3_OneOutstandingPerKey ==
    \A k \in Keys : Cardinality(OutstandingInvs(k)) <= 1

\* the calls made for a key
CallsOf(k) ==
    { c \in CallIds : calls[c].kind # "none" /\ ~ Falsy(calls[c].text)
                        /\ KeyOf(c) = k }

\* the i-th invocation made for a key (invocations are numbered in order)
NthInv(k, i) ==
    CHOOSE n \in InvsOf(k) : Cardinality({ m \in InvsOf(k) : m <= n }) = i

\* playTTS has returned
Returned(c) == calls[c].kind = "play" /\ calls[c].pc \in { "finished", "done" }

\* a lone playTTS call for its key has returned, the first invocation for
\* the key failed and the second, if there was one, succeeded
FailThenSucceed(c) ==
    LET k == KeyOf(c) IN
    /\ Returned(c)
    /\ CallsOf(k) = { c }
    /\ InvsOf(k) # {}
    /\ inv[NthInv(k, 1)].outcome = "failed"
    /\ Cardinality(InvsOf(k)) >= 2 => inv[NthInv(k, 2)].outcome = "ok"

\* C4: with a pipeline that fails on its first invocation and succeeds on
\* its second, a lone playTTS call plays audio exactly once (the buffer of
\* the second invocation) and the pipeline is invoked exactly twice.
C4_RetryPlaysOnce ==
    \A c \in CallIds :
        FailThenSucceed(c) =>
            /\ Cardinality(InvsOf(KeyOf(c))) = 2
            /\ calls[c].plays = 1
            /\ calls[c].buffer = NthInv(KeyOf(c), 2)

C4_Witness ==
    \E c \in CallIds :
        /\ FailThenSucceed(c)
        /\ calls[c].pc = "done"
        /\ calls[c].plays = 1
        /\ Cardinality(InvsOf(KeyOf(c))) = 2

\* C5: one playTTS call obtains a cache entry at most twice; when the second
\* outcome is a failure too it returns without having played anything, and a
\* call that has returned makes no further attempt.
C5_BoundedSingleRetry ==
    /\ [](\A c \in CallIds :
            /\ calls[c].attempts <= 2
            /\ (Returned(c) /\ calls[c].attempts = 2
                  /\ inv[calls[c].entry].result = "null")
                 => (calls[c].plays = 0 /\ calls[c].buffer = 0))
    /\ [][\A c \in CallIds :
            Returned(c) => /\ calls'[c].attempts = calls[c].attempts
                           /\ calls'[c].entry = calls[c].entry
                           /\ calls'[c].plays = calls[c].plays]_vars

\* a playTTS call returned silent after two failed attempts
C5_Witness ==
    \E c \in CallIds :
        /\ Returned(c) /\ calls[c].pc = "done"
        /\ calls[c].attempts = 2
        /\ inv[calls[c].entry].outcome = "failed"
        /\ calls[c].plays = 0

\* call c calls getTTSBuffer in this step
Looks(c) == calls'[c].attempts = calls[c].attempts + 1

\* C6: once every computation made for a key has failed (so its entry has
\* been evicted), the next getTTSBuffer of a playTTS or prefetchTTS call for
\* that key starts a brand-new pipeline invocation and awaits that one.
C6_EvictionUnblocksRetry ==
    [][\A c \in CallIds :
        LET k == CacheKey(calls'[c].text, calls'[c].lang) IN
        (Looks(c) /\ InvsOf(k) # {}
            /\ \A n \in InvsOf(k) : inv[n].outcome = "failed")
          => /\ nInv' = nInv + 1
             /\ calls'[c].entry = nInv'
             /\ inv'[nInv'].key = k
             /\ inv'[nInv'].outcome = "pending"]_vars

\* a failure seen only by a prefetch, then a later call got a new invocation
C6_Witness ==
    \E c1, c2 \in CallIds :
        /\ calls[c1].kind = "prefetch" /\ calls[c2].kind # "none"
        /\ c1 < c2 /\ c1 \notin calls[c2].overlap
        /\ KeyOf(c1) = KeyOf(c2)
        /\ calls[c1].entry # 0 /\ inv[calls[c1].entry].outcome = "failed"
        /\ calls[c2].attempts = 1
        /\ calls[c2].entry > calls[c1].entry
        /\ inv[calls[c2].entry].outcome = "pending"

\* C7: an entry whose computation resolved with a decoded buffer is never
\* removed from the cache.
C7_SuccessNeverEvicted ==
    [][\A k \in Keys :
        (ttsCache[k] # 0 /\ inv[ttsCache[k]].result = "buffer")
          => ttsCache'[k] = ttsCache[k]]_vars

\* C8: once an invocation for a key has produced a decoded buffer, every
\* later lookup of the key resolves to that same buffer and invokes the
\* pipeline no further.
C8_LaterLookupSameBuffer ==
    [][\A c \in CallIds :
        LET k == CacheKey(calls'[c].text, calls'[c].lang) IN
        (Looks(c) /\ \E n \in InvsOf(k) : inv[n].result = "buffer")
          => /\ nInv' = nInv
             /\ \A n \in InvsOf(k) :
                   inv[n].result = "buffer" => calls'[c].entry = n]_vars

\* C9: no playTTS or prefetchTTS call throws or rejects to its caller,
\* whichever way the pipeline fails on the first attempt and on the retry.
C9_NeverThrows ==
    \A c \in CallIds : ~ calls[c].threw

\* a prefetch whose request failed, then a playTTS call that returned
\* normally after its two attempts failed
C9_Witness ==
    \E p, c \in CallIds :
        /\ calls[p].kind = "prefetch" /\ calls[p].entry # 0
        /\ inv[calls[p].entry].outcome = "failed"
        /\ calls[c].kind = "play" /\ calls[c].pc = "done"
        /\ calls[c].attempts = 2
        /\ inv[calls[c].entry].outcome = "failed"
        /\ ~ calls[c].threw /\ ~ calls[p].threw

\* the step is a prefetchTTS call
IsPrefetchStep == nCalls' = nCalls + 1 /\ calls'[nCalls'].kind = "prefetch"

\* C10: prefetchTTS returns at once (its request still in flight), never
\* throws, never plays, and changes nothing the caller can observe (the
\* ResultCard state, the other calls); once every request made for the key
\* has failed, the key has no cache entry.
C10_PrefetchSilence ==
    /\ [](\A c \in CallIds : calls[c].kind = "prefetch" =>
            /\ calls[c].pc = "done"
            /\ ~ calls[c].threw
            /\ calls[c].plays = 0 /\ calls[c].buffer = 0)
    /\ [](\A k \in Keys :
            (InvsOf(k) # {} /\ \A n \in InvsOf(k) : inv[n].outcome = "failed")
              => ttsCache[k] = 0)
    /\ [][IsPrefetchStep =>
            /\ UNCHANGED isPlayingAudio
            /\ \A c \in CallIds : c # nCalls' => calls'[c] = calls[c]]_vars

\* every request of a prefetched key failed and the key has no entry
C10_Witness ==
    \E c1, c2 \in CallIds :
        /\ c1 # c2 /\ KeyOf(c1) = KeyOf(c2)
        /\ calls[c1].kind = "prefetch" /\ calls[c2].kind = "prefetch"
        /\ calls[c1].entry # 0 /\ calls[c2].entry # calls[c1].entry
        /\ \A n \in InvsOf(KeyOf(c1)) : inv[n].outcome = "failed"
        /\ ttsCache[KeyOf(c1)] = 0
        /\ isPlayingAudio = "null"

\* the step starts a call (playTTS through handleTTS, or prefetchTTS) whose
\* text is the empty string
IsEmptyTextCallStep ==
    /\ nCalls' = nCalls + 1
    /\ nCalls' \in CallIds
    /\ calls'[nCalls'].text = <<>>

\* C11: playTTS("", lang) and prefetchTTS("", lang) invoke no pipeline, issue
\* no network request, create no cache entry and leave the cache as it was,
\* play nothing, and have returned when the calling step ends; nothing the
\* call does later changes that.
C11_EmptyTextNoOp ==
    /\ [][IsEmptyTextCallStep =>
            /\ UNCHANGED <<ttsCache, inv, nInv, netRequests>>
            /\ calls'[nCalls'].pc \in { "finished", "done" }
            /\ calls'[nCalls'].plays = 0]_vars
    /\ [](\A c \in CallIds :
            (calls[c].kind # "none" /\ calls[c].text = <<>>) =>
                /\ calls[c].pc \in { "finished", "done" }
                /\ calls[c].attempts = 0 /\ calls[c].entry = 0
                /\ calls[c].plays = 0 /\ calls[c].buffer = 0
                /\ \A l \in Langs : ttsCache[CacheKey(<<>>, l)] = 0)

\* a playTTS("") and a prefetchTTS("") have both returned and the module has
\* invoked nothing and stored nothing
C11_Witness ==
    \E c1, c2 \in CallIds :
        /\ calls[c1].kind = "play" /\ calls[c1].text = <<>>
        /\ calls[c2].kind = "prefetch" /\ calls[c2].text = <<>>
        /\ calls[c1].pc = "done" /\ calls[c2].pc = "done"
        /\ nInv = 0 /\ netRequests = 0
        /\ \A k \in Keys : ttsCache[k] = 0

\* a continuation of playTTS or handleTTS runs as a microtask
Microtask ==
    \E c \in CallIds :
        \/ PlayGetBuffer(c) \/ PlayAfterFirst(c) \/ PlayAfterRetry(c)
        \/ HandleTTSFinally(c)

\* SpecDeviceFair: SpecDevice on a platform that delivers what it was asked
\* for.  The event loop always runs a microtask that is ready; a synthesis
\* request, a ctx.resume() and a started playback are assumed to settle.
FairDevice ==
    /\ WF_vars(Microtask)
    /\ WF_vars(\E n \in InvIds, o \in Outcomes : PipelineSettles(n, o))
    /\ WF_vars(\E c \in CallIds, ok \in BOOLEAN : ResumeSettles(c, ok))
    /\ WF_vars(\E c \in CallIds : PlaybackEnded(c))

SpecDeviceFair == SpecDevice /\ FairDevice

\* C12: when every synthesis request, every resume of the device and every
\* started playback settles, every playTTS call returns, and it returns
\* either after its audio was played to the end or after its retry, too,
\* gave no buffer.
C12_PlayTerminates ==
    /\ \A c \in 1 .. MaxDeviceCalls :
          (calls[c].kind = "play") ~> Returned(c)
    /\ [](\A c \in CallIds :
            (Returned(c) /\ ~ Falsy(calls[c].text)) =>
                \/ calls[c].plays = 1 /\ calls[c].buffer # 0
                \/ calls[c].plays = 0 /\ calls[c].attempts = 2
                     /\ inv[calls[c].entry].result = "null")

\* two playTTS calls that had to resume the device have returned, one after
\* playing and one after a retry that gave no buffer
C12_Witness ==
    \E c1, c2 \in CallIds :
        /\ Returned(c1) /\ Returned(c2)
        /\ calls[c1].plays = 1
        /\ calls[c2].plays = 0 /\ calls[c2].attempts = 2
        /\ audioCtx = 1 /\ ctxState = "running"

\* floor(|s| * 10^6 / 32768): the first six decimals of |s / 32768.0|, by
\* long division
RECURSIVE Decimals(_, _, _)
Decimals(q, r, k) ==
    IF k = 0 THEN q
    ELSE Decimals(10 * q + (10 * r) \div 32768, (10 * r) % 32768, k - 1)

Micro(s) ==
    LET a == IF s < 0 THEN 0 - s ELSE s IN Decimals(a \div 32768, a % 32768, 6)

\* the conversion has run and produced a buffer
Decoded == audioBuffer.state = "ok"

\* C13: sample i of a decoded buffer is s_i / 32768, where s_i is the signed
\* 16-bit little-endian reading of bytes 2i and 2i+1 (counted from 0); every
\* sample lies in [-1.0, 1.0]; bytes 00 80 FF 7F give the samples -32768 and
\* 32767 over 32768, that is -1.0 and 0.999969.
C13_SignedLittleEndianSamples ==
    Decoded =>
        /\ \A i \in 1 .. audioBuffer.length :
              LET lo == byteArray[2 * i - 1]
                  hi == byteArray[2 * i]
                  s == audioBuffer.channelData[i] IN
              /\ s = ((lo + 256 * hi + 32768) % 65536) - 32768
              /\ -32768 <= s /\ s <= 32768
        /\ byteArray = <<0, 128, 255, 127>> =>
              /\ audioBuffer.channelData = <<-32768, 32767>>
              /\ Micro(-32768) = 1000000
              /\ Micro(32767) = 999969

\* the bytes 00 80 FF 7F have been converted
C13_Witness ==
    /\ Decoded
    /\ byteArray = <<0, 128, 255, 127>>
    /\ audioBuffer.length = 2

\* the trailing byte of an odd payload, or nothing
Dropped == SubSeq(byteArray, 2 * (Len(byteArray) \div 2) + 1, Len(byteArray))

Playing == { c \in CallIds : calls[c].kind = "play" /\ calls[c].pc = "playing" }

\* C15: driven by the UI handlers, at most one playBuffer call is outstanding
\* at any time (the handlers keep two playbacks from overlapping).
C15_OnePlaybackAtATime == Cardinality(Playing) <= 1

\* C16: a getTTSBuffer call checks and inserts in one step.  When the key has
\* an entry (pending or resolved) the call returns that entry and invokes
\* nothing; when it has none (always so for the retry, which deletes the key
\* first) the call invokes fetchAndDecodeTTS once and the new promise is the
\* key's entry when the step ends, before it settles, no other entry or
\* invocation being touched.
C16_AtomicCheckAndInsert ==
    [][\A c \in CallIds : Looks(c) =>
          LET k == CacheKey(calls'[c].text, calls'[c].lang)
              e == IF calls'[c].attempts = 1 THEN ttsCache[k] ELSE 0 IN
          IF e # 0
          THEN /\ calls'[c].entry = e
               /\ UNCHANGED <<ttsCache, inv, nInv, netRequests>>
          ELSE /\ nInv' = nInv + 1
               /\ calls'[c].entry = nInv'
               /\ ttsCache'[k] = nInv'
               /\ inv'[nInv'].key = k
               /\ inv'[nInv'].outcome \in { "pending", "notext" }
               /\ \A n \in 1 .. nInv :
                     /\ inv'[n].key = inv[n].key
                     /\ inv'[n].outcome = inv[n].outcome
                     /\ inv'[n].result = inv[n].result
               /\ \A k2 \in Keys \ { k } : ttsCache'[k2] = ttsCache[k2]]_vars

\* a second first-time caller got the pending entry the first one stored
C16_Witness ==
    \E c1, c2 \in CallIds :
        /\ c1 # c2
        /\ calls[c1].attempts = 1 /\ calls[c2].attempts = 1
        /\ calls[c1].entry # 0 /\ calls[c1].entry = calls[c2].entry
        /\ inv[calls[c1].entry].result = "pending"
        /\ ttsCache[KeyOf(c1)] = calls[c1].entry
        /\ nInv = 1

\* the fetchAndDecodeTTS invocations made so far
Invocations == { n \in InvIds : n <= nInv }

\* C17: every failed fetchAndDecodeTTS invocation has exactly one cache
\* delete attributable to it, however many callers were attached to it, and
\* none is made for it before its failure is observed.
C17_OneDeletePerFailure ==
    \A n \in Invocations :
        /\ inv[n].outcome = "failed" => inv[n].deletes = 1
        /\ inv[n].outcome = "pending" => inv[n].deletes = 0

\* the step is the catch handler of invocation n
IsCatchStep(n) == inv[n].outcome = "pending" /\ inv'[n].outcome = "failed"

\* the step is the retry branch of playTTS call c: delete, then getTTSBuffer
IsRetryStep(c) == Looks(c) /\ calls'[c].attempts = 2

\* C18: an eviction made for a failed computation, by getTTSBuffer's catch
\* handler or by playTTS after a null result, removes no entry other than
\* that computation's own: the key holds that entry or none when the delete
\* runs, never an entry created by a later getTTSBuffer call.
C18_EvictsOwnEntryOnly ==
    [][/\ \A n \in InvIds :
            IsCatchStep(n) => ttsCache[inv[n].key] \in { 0, n }
       /\ \A c \in CallIds :
            IsRetryStep(c) => ttsCache[KeyOf(c)] \in { 0, calls[c].entry }]_vars

\* the places of playTTS a call can move to from each place
PlayOrder ==
    [ new      |-> { "resuming", "resumed", "finished" },
      resuming |-> { "resumed" },
      resumed  |-> { "await1" },
      await1   |-> { "await2", "playing", "finished" },
      await2   |-> { "playing", "finished" },
      playing  |-> { "finished" },
      finished |-> { "done" },
      done     |-> {} ]

\* C19: inside one playTTS call the steps come in this order: the resume of
\* the device (ensureReady), then the first getTTSBuffer and its await, then,
\* only when that gave no buffer, the eviction with one further getTTSBuffer,
\* then the playback.  Playback starts only with a buffer that a computation
\* for this call's key produced, and a call that plays does not return before
\* its playback has ended.
C19_PlayTTSOrder ==
    /\ [][\A c \in CallIds :
            (calls'[c].kind = "play" /\ calls'[c] # calls[c]) =>
                /\ calls'[c].pc # calls[c].pc =>
                      calls'[c].pc \in PlayOrder[calls[c].pc]
                /\ (Looks(c) /\ calls'[c].attempts = 1) =>
                      calls[c].pc = "resumed"
                /\ IsRetryStep(c) =>
                      /\ calls[c].pc = "await1"
                      /\ inv[calls[c].entry].result = "null"
                /\ calls'[c].plays # calls[c].plays =>
                      /\ calls'[c].pc = "playing" /\ calls'[c].plays = 1
                      /\ calls'[c].buffer = calls[c].entry
                      /\ inv[calls[c].entry].result = "buffer"
                      /\ inv[calls[c].entry].key = KeyOf(c)
                /\ (Returned(c)' /\ ~ Returned(c) /\ calls[c].plays = 1) =>
                      calls[c].pc = "playing"]_vars
    /\ [](\A c \in CallIds : calls[c].kind = "play" =>
            /\ calls[c].pc \in { "resuming", "resumed" } =>
                  calls[c].attempts = 0 /\ calls[c].entry = 0
            /\ calls[c].pc = "await1" => calls[c].attempts = 1
            /\ calls[c].pc = "await2" => calls[c].attempts = 2
            /\ calls[c].pc \in { "await1", "await2" } => calls[c].plays = 0)

\* a call whose first request failed and whose retry gave a buffer has
\* played that buffer on the resumed device and returned
C19_Witness ==
    \E c \in CallIds :
        /\ Returned(c)
        /\ calls[c].attempts = 2 /\ calls[c].plays = 1
        /\ calls[c].buffer = calls[c].entry
        /\ inv[calls[c].buffer].result = "buffer"
        /\ \E n \in Invocations :
              n < calls[c].entry /\ inv[n].key = KeyOf(c)
                /\ inv[n].outcome = "failed"
        /\ ctxState = "running"

\* a text that is not empty and holds white space only
Blank(text) == Len(text) > 0 /\ \A i \in 1 .. Len(text) : text[i] = " "

BlankKeys == { CacheKey(t, l) : t \in { x \in Texts : Blank(x) }, l \in Langs }

\* C20: for a text of white space only fetchAndDecodeTTS issues no synthesis
\* request and completes with null without failing (its catch handler does
\* not run); a playTTS call with such a text issues no request on its first
\* attempt nor on its retry, and plays nothing.
C20_BlankTextNoRequest ==
    /\ [](\A n \in Invocations : inv[n].key \in BlankKeys =>
            /\ inv[n].outcome = "notext"
            /\ inv[n].result = "null")
    /\ [](\A c \in CallIds : (calls[c].kind = "play" /\ Blank(calls[c].text)) =>
            /\ calls[c].plays = 0 /\ calls[c].buffer = 0
            /\ ~ calls[c].threw
            /\ calls[c].pc # "playing"
            /\ Returned(c) => calls[c].attempts = 2)
    /\ [][\A c \in CallIds :
            (Blank(calls'[c].text) /\ calls'[c] # calls[c]) =>
                /\ netRequests' = netRequests
                /\ lastError' = lastError]_vars

\* a playTTS(" ") has returned after two attempts, nothing was requested and
\* nothing played
C20_Witness ==
    \E c \in CallIds :
        /\ Returned(c) /\ Blank(calls[c].text)
        /\ calls[c].attempts = 2 /\ calls[c].plays = 0
        /\ nInv = 2
        /\ \A n \in Invocations : inv[n].outcome = "notext"
        /\ netRequests = 0

\* the keys whose stored promise has settled
SettledKeys == { k \in Keys : ttsCache[k] # 0 /\ Settled(ttsCache[k]) }

\* C21, as stated: every entry of ttsCache whose computation has settled
\* resolved with a decoded buffer; a failed or absent outcome never stays.
C21_NoSettledEntryWithoutBuffer ==
    \A k \in SettledKeys : inv[ttsCache[k]].result = "buffer"

\* C21, amended: every settled entry of ttsCache for a text that is not white
\* space only resolved with a decoded buffer (a failed computation is removed
\* by its catch handler); a settled entry for a white-space-only text is the
\* null that fetchAndDecodeTTS returned without failing, which stays stored.
C21_NoFailedEntryRetained ==
    \A k \in SettledKeys :
        IF k \in BlankKeys
        THEN inv[ttsCache[k]].outcome = "notext"
        ELSE inv[ttsCache[k]].result = "buffer" /\ inv[ttsCache[k]].outcome = "ok"

\* one key holds a decoded buffer while a failed computation of another key
\* has settled and left no entry
C21_Witness ==
    \E k1, k2 \in Keys :
        /\ k1 # k2
        /\ k1 \in SettledKeys /\ inv[ttsCache[k1]].result = "buffer"
        /\ ttsCache[k2] = 0
        /\ \E n \in Invocations : inv[n].key = k2 /\ inv[n].outcome = "failed"

\* the step settles invocation n with the error `kind`
FailsWith(n, kind) == IsCatchStep(n) /\ lastError' = kind

\* what a failure of invocation n leaves: a null result, no entry for the
\* key, and no further invocation or request made by the pipeline itself
FailedOutcome(n) ==
    /\ inv'[n].outcome = "failed"
    /\ inv'[n].result = "null"
    /\ ttsCache'[inv[n].key] = 0
    /\ nInv' = nInv
    /\ netRequests' = netRequests
    /\ \A m \in Invocations \ { n } : inv'[m] = inv[m]

\* C22: a response of the synthesis service that carries no audio payload
\* makes the invocation fail: no buffer is produced, the pipeline makes no
\* further attempt of its own, and the invocation ends as one whose request
\* was rejected does, with a null result and its key evicted.
C22_EmptyAudioFails ==
    [][\A n \in InvIds :
          /\ FailsWith(n, "empty") => FailedOutcome(n)
          /\ FailsWith(n, "transport") => FailedOutcome(n)]_vars

\* an invocation ended on a response without audio: null result, no entry
C22_Witness ==
    \E n \in Invocations :
        /\ inv[n].outcome = "failed" /\ inv[n].result = "null"
        /\ lastError = "empty"
        /\ ttsCache[inv[n].key] = 0
        /\ nInv = 1 /\ netRequests = 1

\* the step is the start of playTTS call c with a text that is not empty
StartsPlay(c) ==
    /\ calls[c].kind = "none" /\ calls'[c].kind = "play"
    /\ ~ Falsy(calls'[c].text)

\* the step settles the ctx.resume() of call c with a rejection: the device
\* stays suspended
ResumeFails(c) ==
    /\ calls[c].pc = "resuming" /\ calls'[c].pc # "resuming"
    /\ ctxState' = "suspended"

\* C23: resumeAudioContext calls ctx.resume() only when the device is
\* suspended; a resume that fails raises nothing to the caller, and the
\* playTTS call goes on to getTTSBuffer and, when it gets a buffer, to the
\* playback.
C23_ResumeOnlyIfSuspendedAndSwallowed ==
    /\ [][\A c \in CallIds :
            /\ StartsPlay(c) =>
                  calls'[c].pc =
                      IF ctxState' = "suspended" THEN "resuming" ELSE "resumed"
            /\ ResumeFails(c) =>
                  /\ calls'[c].pc = "resumed"
                  /\ ~ calls'[c].threw
                  /\ calls'[c].attempts = 0]_vars
    /\ [](\A c \in CallIds :
            /\ calls[c].pc = "resuming" => ctxState # "none"
            /\ ~ calls[c].threw
            /\ (Returned(c) /\ ~ Falsy(calls[c].text) /\ ctxState = "suspended") =>
                  \/ calls[c].plays = 1 /\ calls[c].buffer # 0
                  \/ calls[c].plays = 0 /\ calls[c].attempts = 2)

\* the device is still suspended, so the resume of every call so far has
\* failed, and a call has got its buffer and is playing it
C23_Witness ==
    \E c \in CallIds :
        /\ calls[c].pc = "playing"
        /\ inv[calls[c].buffer].result = "buffer"
        /\ ctxState = "suspended"

\* the step runs code that calls getAudioContext: resumeAudioContext (alone
\* or at the start of playTTS) or fetchAndDecodeTTS before its request
UsesAudioContext ==
    \/ \E c \in CallIds :
          calls[c].kind = "none" /\ calls'[c].kind \in { "play", "resume" }
            /\ calls'[c].pc # "finished"
    \/ netRequests' # netRequests

\* C24: at most one AudioContext is ever constructed, whatever the sequence
\* of playTTS, prefetchTTS and resumeAudioContext calls; it is constructed by
\* the first step that uses the device and not before, and once there it is
\* never constructed again, replaced or reset.
C24_SingletonAudioContext ==
    /\ [](audioCtx <= 1 /\ (audioCtx = 0) = (ctxState = "none"))
    /\ [][/\ audioCtx' >= audioCtx
          /\ audioCtx = 1 => audioCtx' = 1
          /\ (audioCtx = 0 /\ audioCtx' = 1) = (audioCtx = 0 /\ UsesAudioContext)]_vars

\* a resumeAudioContext call and a prefetchTTS call have both used the one
\* AudioContext
C24_Witness ==
    /\ audioCtx = 1
    /\ \E c1, c2 \in CallIds :
          /\ calls[c1].kind = "resume" /\ calls[c1].pc = "done"
          /\ calls[c2].kind = "prefetch"
          /\ netRequests >= 1

\* the playTTS calls started by handleTTS that have not returned
OutstandingPlays ==
    { c \in CallIds : calls[c].kind = "play"
                        /\ calls[c].pc \notin { "finished", "done" } }

\* the handleTTS calls that have not run their finally block
OpenHandlers == { c \in CallIds : calls[c].kind = "play" /\ calls[c].pc # "done" }

\* C25: while a playTTS call started by handleTTS is outstanding,
\* isPlayingAudio is not null; once every handleTTS call has ended, also
\* after a failed playback, it is null.
C25_IndicatorTracksPlayback ==
    /\ OutstandingPlays # {} => isPlayingAudio # "null"
    /\ OpenHandlers = {} => isPlayingAudio = "null"

\* C26: whenever the flashcard view shows a card, the index is that of an
\* entry of the notebook: 0 <= currentFlashcardIndex < notebook.length, under
\* every sequence of navigation, previous / next clicks and saveEntry calls;
\* and the notebook never loses an entry.
C26_FlashcardIndexInRange ==
    /\ [](RendersCard =>
            0 <= currentFlashcardIndex /\ currentFlashcardIndex < Len(notebook))
    /\ [][Len(notebook') >= Len(notebook)]_vars

\* the view shows the last card of a notebook of several entries
C26_Witness ==
    /\ RendersCard
    /\ Len(notebook) >= 2
    /\ currentFlashcardIndex = Len(notebook) - 1

====
